---- MODULE Spec2Model ----
(***************************************************************************)
(* Model of the Jira batch scripts: the two issue-creation drivers         *)
(* (create_jira.py, create_jira_prompt_project.py) and the batch update    *)
(* driver with its attachment and transition resolvers (update_jira.py).   *)
(*                                                                         *)
(* Text is modelled as a sequence of one-character strings wherever the    *)
(* code looks inside it (split, startswith, lower, upper, strip,           *)
(* concatenation).  Python's None and the empty string are both falsy and  *)
(* the code only ever tests them for truth, so both are the empty          *)
(* sequence here.                                                          *)
(***************************************************************************)
EXTENDS Integers, Sequences, FiniteSets, TLC

VARIABLES
    script,          \* which creation script runs
    pc,              \* position of process_json
    default_project, \* create_jira_prompt_project.py: result of prompt_project_key
    items,           \* creation entries loaded from the input file
    idx,             \* 1-based position of the for loop over items
    update_entries,  \* the derived update list being built
    requests,        \* create requests sent so far, with the server's answer
    stdout,          \* [SKIP] / [ERROR] / [CREATED] lines printed so far
    written,         \* contents written to <stem>_update.json, in order
    upc,             \* position of process_rtm inside the current update entry
    uitems,          \* update entries loaded from the --rtm file
    uidx,            \* 1-based position of the for loop over uitems
    aidx,            \* 1-based position of the loop over entry["attachments"]
    calls,           \* remote calls and step outcomes of process_rtm, in order
    disk,            \* paths that exist on the local disk
    transitions,     \* body the server returns for GET .../transitions
    myself,          \* body the server returns for GET /myself
    fields,          \* body the server returns for GET /field
    ret,             \* what the last upload_file / attach_certificate returned
    raised           \* the exception that left process_rtm, "None" if none did

cvars == <<script, pc, default_project, items, idx, update_entries, requests,
           stdout, written>>
uvars == <<upc, uitems, uidx, aidx, calls, disk, transitions, myself, fields,
           ret, raised>>
vars == <<cvars, uvars>>

\* Largest number of creation entries in an input file.
MaxItems == 2
\* Largest number of update entries in an --rtm file.
MaxUpdates == 2

\* Largest number of transitions in a fetched transition list.
MaxTransitions == 2
\* Largest number of explicit attachments in an update entry.
MaxAttachments == 2

None == <<>>

\* A response body that is not JSON: response.json() raises on it.
NotJson == [json |-> FALSE, kind |-> "none", data |-> <<>>]
\* A response body that parses to the JSON object (dict) d, to the JSON array d.
JsonObject(d) == [json |-> TRUE, kind |-> "object", data |-> d]
JsonArray(d) == [json |-> TRUE, kind |-> "array", data |-> d]

(***************************************************************************)
(* Text helpers                                                            *)
(***************************************************************************)
UpperChars == <<"A","B","C","D","E","F","G","H","I","J","K","L","M",
                "N","O","P","Q","R","S","T","U","V","W","X","Y","Z">>
LowerChars == <<"a","b","c","d","e","f","g","h","i","j","k","l","m",
                "n","o","p","q","r","s","t","u","v","w","x","y","z">>

\* str.lower() on one character
LowerChar(c) ==
    IF \E i \in 1..26 : UpperChars[i] = c
    THEN LowerChars[CHOOSE i \in 1..26 : UpperChars[i] = c]
    ELSE c

\* str.upper() on one character
UpperChar(c) ==
    IF \E i \in 1..26 : LowerChars[i] = c
    THEN UpperChars[CHOOSE i \in 1..26 : LowerChars[i] = c]
    ELSE c

Lower(s) == [i \in 1..Len(s) |-> LowerChar(s[i])]
Upper(s) == [i \in 1..Len(s) |-> UpperChar(s[i])]

\* str.startswith(prefix)
StartsWith(s, prefix) ==
    /\ Len(prefix) <= Len(s)
    /\ SubSeq(s, 1, Len(prefix)) = prefix

\* s.split("-")[0]: everything before the first "-", all of s when it has none
SplitFirst(s) ==
    IF \E i \in 1..Len(s) : s[i] = "-"
    THEN SubSeq(s, 1, (CHOOSE i \in 1..Len(s) :
                          /\ s[i] = "-"
                          /\ \A j \in 1..(i-1) : s[j] # "-") - 1)
    ELSE s

\* str.strip() for blanks
RECURSIVE LStrip(_)
LStrip(s) == IF s # <<>> /\ Head(s) = " " THEN LStrip(Tail(s)) ELSE s
RECURSIVE RStrip(_)
RStrip(s) ==
    IF s # <<>> /\ s[Len(s)] = " " THEN RStrip(SubSeq(s, 1, Len(s)-1)) ELSE s
Strip(s) == RStrip(LStrip(s))

Restrict(f, S) == [k \in S |-> f[k]]

(***************************************************************************)
(* Issue creation: create_jira.py and create_jira_prompt_project.py        *)
(***************************************************************************)
Scripts == {"create_jira", "create_jira_prompt_project"}

CPG == <<"C","P","G">>
ENG == <<"E","N","G">>

\* Epic keys found in input files: two well-formed ones in different
\* projects, one whose project part itself holds a "-", one without "-".
Epics == { CPG \o <<"-","7">>, ENG \o <<"-","3">>,
           CPG \o <<"-","X","-","1">>, CPG \o <<"7">> }

\* What the operator may type at the prompt (before strip()).
PromptInputs == { <<>>, <<" ">>, CPG, <<" ">> \o ENG \o <<" ">>,
                  CPG \o <<"-","X">> }

LabelLists == { <<"cert">> }

RequiredFields == {"rtm", "epic", "summary", "description"}
AllFields == RequiredFields \cup {"labels"}

FullEntry(e, l) ==
    [rtm |-> "RTM-1", epic |-> e, summary |-> "summary",
     description |-> "description", labels |-> l]

\* Creation entries: complete ones and ones lacking exactly one field.
CreationEntries ==
    { Restrict(FullEntry(e, l), F) :
        e \in Epics, l \in LabelLists,
        F \in {AllFields} \cup { AllFields \ {k} : k \in AllFields } }

\* Keys the server hands out on 201.
ReturnedKeys == { CPG \o <<"-","1","0","1">>, ENG \o <<"-","9">> }

\* Answers to POST /issue.  Only 201 carries a key.
CreateResponses ==
    { [status_code |-> 201, key |-> k] : k \in ReturnedKeys }
        \cup { [status_code |-> c, key |-> None] : c \in {200, 400} }

\* entry.get("labels", [])
GetLabels(entry) == IF "labels" \in DOMAIN entry THEN entry.labels ELSE <<>>

\* try: entry["rtm"] ... entry["description"]  except KeyError: continue
HasRequiredWithLabels(entry) == AllFields \subseteq DOMAIN entry
HasRequired(entry) == RequiredFields \subseteq DOMAIN entry

infer_project_from_epic(epic_key) == SplitFirst(epic_key)

\* create_jira.py hard-codes "project": {"key": "CPG"};
\* create_jira_prompt_project.py takes default_project or infers it.
ProjectKey(s, dp, epic_key) ==
    IF s = "create_jira" THEN CPG
    ELSE IF dp # None THEN dp ELSE infer_project_from_epic(epic_key)

\* Guardrail of create_jira_prompt_project.py; create_jira.py has none.
GuardOff(s, project_key, epic_key) == TRUE
GuardOk(s, project_key, epic_key) ==
    \/ s = "create_jira"
    \/ StartsWith(epic_key, project_key \o <<"-">>)

\* The comment string each script formats from rtm.
CommentFor(s, rtm) ==
    IF s = "create_jira" THEN <<"RTM ", rtm, " certificate created.">>
    ELSE <<rtm, " created (auto-generated).">>

DerivedNoLabels(s, issue_key, rtm, labels) ==
    [issue |-> issue_key, status |-> "To Do", comment |-> CommentFor(s, rtm),
     labels |-> <<>>, points |-> 0]
DerivedEntry(s, issue_key, rtm, labels) ==
    [issue |-> issue_key, status |-> "To Do", comment |-> CommentFor(s, rtm),
     labels |-> labels, points |-> 0]

\* create_issue's return value: the key on 201, None otherwise.
IssueKeyOf(resp) == IF resp.status_code = 201 THEN resp.key ELSE None

\* if issue_key: update_entries.append({...})
AppendAlways(ue, s, issue_key, rtm, labels) ==
    Append(ue, DerivedEntry(s, issue_key, rtm, labels))
AppendIfCreated(ue, s, issue_key, rtm, labels) ==
    IF issue_key # None
    THEN Append(ue, DerivedEntry(s, issue_key, rtm, labels))
    ELSE ue

\* The for loop's step after a create request.
RetryOnFailure(i, issue_key) == IF issue_key = None THEN i ELSE i + 1
AfterCreate(i, issue_key) == i + 1

InitCreate ==
    /\ script \in Scripts
    /\ items \in UNION { [1..n -> CreationEntries] : n \in 0..MaxItems }
    /\ pc = IF script = "create_jira" THEN "loop" ELSE "prompt"
    /\ default_project = None
    /\ idx = 1
    /\ update_entries = <<>>
    /\ requests = <<>>
    /\ stdout = <<>>
    /\ written = <<>>
    /\ upc = "idle" /\ uitems = <<>> /\ uidx = 1 /\ aidx = 1
    /\ calls = <<>> /\ disk = {} /\ raised = "None" /\ ret = "None"
    /\ transitions = NotJson /\ myself = NotJson /\ fields = NotJson

\* prompt_project_key(): value = input(...).strip(); value or None
prompt_project_key ==
    /\ pc = "prompt"
    /\ \E typed \in PromptInputs :
         default_project' = Strip(typed)
    /\ pc' = "loop"
    /\ UNCHANGED <<script, items, idx, update_entries, requests, stdout,
                   written, uvars>>

\* prompt_project_key(): KeyboardInterrupt -> print("Aborted."), exit(1)
prompt_interrupted ==
    /\ pc = "prompt"
    /\ pc' = "aborted"
    /\ stdout' = Append(stdout, [tag |-> "Aborted", entry |-> 0])
    /\ UNCHANGED <<script, default_project, items, idx, update_entries,
                   requests, written, uvars>>

\* Loop body, KeyError branch: print [SKIP], continue.
skip_missing_field ==
    /\ pc = "loop" /\ idx <= Len(items)
    /\ ~HasRequired(items[idx])
    /\ stdout' = Append(stdout, [tag |-> "SKIP", entry |-> idx])
    /\ idx' = idx + 1
    /\ UNCHANGED <<script, pc, default_project, items, update_entries,
                   requests, written, uvars>>

\* Loop body, guardrail branch: print [ERROR] ... Skipping, continue.
skip_cross_project ==
    /\ pc = "loop" /\ idx <= Len(items)
    /\ HasRequired(items[idx])
    /\ LET epic_key == items[idx].epic
           project_key == ProjectKey(script, default_project, epic_key)
       IN  ~GuardOk(script, project_key, epic_key)
    /\ stdout' = Append(stdout, [tag |-> "ERROR_GUARD", entry |-> idx])
    /\ idx' = idx + 1
    /\ UNCHANGED <<script, pc, default_project, items, update_entries,
                   requests, written, uvars>>

\* Loop body, main branch: create_issue(...) and the append on success.
create_entry ==
    /\ pc = "loop" /\ idx <= Len(items)
    /\ HasRequired(items[idx])
    /\ LET entry == items[idx]
           epic_key == entry.epic
           labels == GetLabels(entry)
           project_key == ProjectKey(script, default_project, epic_key)
       IN  /\ GuardOk(script, project_key, epic_key)
           /\ \E resp \in CreateResponses :
                LET issue_key == IssueKeyOf(resp) IN
                /\ requests' = Append(requests,
                       [entry |-> idx, project |-> project_key,
                        parent |-> epic_key, summary |-> entry.summary,
                        description |-> entry.description, labels |-> labels,
                        status_code |-> resp.status_code, key |-> resp.key])
                /\ stdout' = Append(stdout,
                       [tag |-> IF issue_key # None THEN "CREATED"
                                ELSE "ERROR_FAILED",
                        entry |-> idx])
                /\ update_entries' = AppendIfCreated(update_entries, script,
                                        issue_key, entry.rtm, labels)
                /\ idx' = AfterCreate(idx, issue_key)
    /\ UNCHANGED <<script, pc, default_project, items, written, uvars>>

\* After the loop: json.dump(update_entries) to <stem>_update.json.
write_update_file ==
    /\ pc = "loop" /\ idx > Len(items)
    /\ written' = Append(written, update_entries)
    /\ pc' = "done"
    /\ UNCHANGED <<script, default_project, items, idx, update_entries,
                   requests, stdout, uvars>>

NextCreate ==
    \/ prompt_project_key
    \/ prompt_interrupted
    \/ skip_missing_field
    \/ skip_cross_project
    \/ create_entry
    \/ write_update_file

SpecCreate == InitCreate /\ [][NextCreate]_vars

(***************************************************************************)
(* Batch update: update_jira.py                                            *)
(***************************************************************************)
\* A path is a directory (a sequence of components, absolute when the first
\* is "/") and a file name (text).
CERT_DIR == <<"/", "Users", "michaelritchson", "desktop", "development",
              "JIRA", "certificates">>
\* os.path.dirname(os.path.abspath(__file__))
PROJECT_ROOT == <<"/", "PROJECT_ROOT">>

\* os.path.isabs(p)
IsAbs(p) == p.dir # <<>> /\ p.dir[1] = "/"
\* os.path.join(root, p) for a relative p
Join(root, p) == [dir |-> root \o p.dir, name |-> p.name]
\* os.path.join(CERT_DIR, fname)
CertPath(fname) == [dir |-> CERT_DIR, name |-> fname]
\* os.path.exists(p), on a case-sensitive file system
Exists(p) == p \in disk

Pdf == <<".", "p", "d", "f">>

\* possible_filenames of attach_certificate, in probing order
HyphenFirstFilenames(category, severity) ==
    << category \o <<"-">> \o severity \o Pdf,
       Lower(category) \o <<"-">> \o Lower(severity) \o Pdf,
       category \o <<"_">> \o severity \o Pdf,
       Lower(category \o <<"_">> \o severity) \o Pdf,
       Lower(category) \o <<"_">> \o Lower(severity) \o Pdf,
       Upper(category) \o <<"_">> \o Upper(severity) \o Pdf >>
PossibleFilenames(category, severity) ==
    LET base == category \o <<"_">> \o severity IN
    << base \o Pdf,
       Lower(base) \o Pdf,
       Lower(category) \o <<"_">> \o Lower(severity) \o Pdf,
       Upper(category) \o <<"_">> \o Upper(severity) \o Pdf,
       category \o <<"-">> \o severity \o Pdf,
       Lower(category) \o <<"-">> \o Lower(severity) \o Pdf >>

\* One remote call of process_rtm.
Call(e, step, method, target, payload) ==
    [entry |-> e, step |-> step, method |-> method, target |-> target,
     payload |-> payload]

\* if t["name"].lower() == status.lower()
MatchesCaseSensitive(t, status) == t.name = status
TransitionMatches(t, status) == Lower(t.name) = Lower(status)

\* the for loop of update_status: id of the first matching transition, or None
FirstTransitionId(list, status) ==
    LET hits == { i \in DOMAIN list : TransitionMatches(list[i], status) } IN
    IF hits = {} THEN None
    ELSE list[CHOOSE i \in hits : \A j \in hits : i <= j].id

\* s contains sub
Contains(s, sub) ==
    \E i \in 0..(Len(s) - Len(sub)) : SubSeq(s, i + 1, i + Len(sub)) = sub

StoryPoint == <<"s","t","o","r","y"," ","p","o","i","n","t">>

\* "story point" in f.get("name", "").lower()
IsStoryPointField(f) ==
    Contains(Lower(IF "name" \in DOMAIN f THEN f.name ELSE <<>>), StoryPoint)

\* the for loop of update_story_points over a list of field descriptors
FirstStoryPointField(list) ==
    LET hits == { i \in DOMAIN list : IsStoryPointField(list[i]) } IN
    IF hits = {} THEN None
    ELSE list[CHOOSE i \in hits : \A j \in hits : i <= j].id

\* if worklog:  /  if category and severity:
HasWorklog(entry) == "worklog" \in DOMAIN entry /\ DOMAIN entry.worklog # {}
HasCertificate(entry) ==
    /\ "category" \in DOMAIN entry /\ entry.category # <<>>
    /\ "severity" \in DOMAIN entry /\ entry.severity # <<>>

\* entry.get("attachments", [])
GetAttachments(entry) ==
    IF "attachments" \in DOMAIN entry THEN entry.attachments ELSE <<>>

\* payload of add_worklog: the comment document only if comment is truthy
WorklogPayload(time_spent, comment) ==
    IF comment # ""
    THEN [timeSpent |-> time_spent, comment |-> [type |-> "doc", text |-> comment]]
    ELSE [timeSpent |-> time_spent]

\* status codes upload_file may see; it returns True on 200 and 201 only
UploadCodes == {200, 201, 403}
UploadResult(code) == IF code \in {200, 201} THEN "True" ELSE "False"

Entry == uitems[uidx]

\* What process_rtm does once a step of the current entry has returned.
Goto(step) ==
    /\ upc' = step
    /\ raised' = "None"
    /\ UNCHANGED <<uitems, uidx, disk, transitions, myself, fields>>

\* An exception leaves the step: nothing catches it, process_rtm ends.
Raise(exc) ==
    /\ upc' = "crashed"
    /\ raised' = exc
    /\ UNCHANGED <<uitems, uidx, disk, transitions, myself, fields>>

\* if "status" in entry: update_status(issue, entry["status"])
update_status ==
    /\ upc = "status"
    /\ UNCHANGED <<cvars, aidx, ret>>
    /\ \/ /\ "status" \notin DOMAIN Entry
          /\ calls' = calls
          /\ Goto("comment")
       \/ /\ "status" \in DOMAIN Entry
          /\ ~transitions.json
          /\ calls' = Append(calls, Call(uidx, "status", "GET", "transitions", None))
          /\ Raise("JSONDecodeError")
       \/ /\ "status" \in DOMAIN Entry
          /\ transitions.json
          /\ LET list == IF "transitions" \in DOMAIN transitions.data
                         THEN transitions.data.transitions ELSE <<>>
                 transition_id == FirstTransitionId(list, Entry.status)
                 get == Call(uidx, "status", "GET", "transitions", None)
             IN  calls' = IF transition_id = None
                          THEN Append(calls, get)
                          ELSE calls \o <<get, Call(uidx, "status", "POST",
                                                    "transitions", transition_id)>>
          /\ Goto("comment")

\* if "comment" in entry: add_comment(issue, entry["comment"])
add_comment ==
    /\ upc = "comment"
    /\ UNCHANGED <<cvars, aidx, ret>>
    /\ calls' = IF "comment" \in DOMAIN Entry
                THEN Append(calls, Call(uidx, "comment", "POST", "comment",
                                        Entry.comment))
                ELSE calls
    /\ Goto("assign")

\* assign_to_me(issue)
assign_to_me ==
    /\ upc = "assign"
    /\ UNCHANGED <<cvars, aidx, ret>>
    /\ LET get == Call(uidx, "assign", "GET", "myself", None) IN
       \/ /\ ~myself.json
          /\ calls' = Append(calls, get)
          /\ Raise("JSONDecodeError")
       \/ /\ myself.json
          /\ "accountId" \notin DOMAIN myself.data
          /\ calls' = Append(calls, get)
          /\ Raise("KeyError")
       \/ /\ myself.json
          /\ "accountId" \in DOMAIN myself.data
          /\ calls' = calls \o <<get, Call(uidx, "assign", "PUT", "assignee",
                                           myself.data.accountId)>>
          /\ Goto("labels")

\* if "labels" in entry: add_labels(issue, entry["labels"])
add_labels ==
    /\ upc = "labels"
    /\ UNCHANGED <<cvars, aidx, ret>>
    /\ calls' = IF "labels" \in DOMAIN Entry
                THEN Append(calls, Call(uidx, "labels", "PUT", "issue",
                                        Entry.labels))
                ELSE calls
    /\ Goto("points")

\* if "points" in entry: update_story_points(issue, entry["points"])
update_story_points ==
    /\ upc = "points"
    /\ UNCHANGED <<cvars, aidx, ret>>
    /\ LET get == Call(uidx, "points", "GET", "field", None) IN
       \/ /\ "points" \notin DOMAIN Entry
          /\ calls' = calls
          /\ Goto("worklog")
       \/ /\ "points" \in DOMAIN Entry
          /\ ~fields.json
          /\ calls' = Append(calls, get)
          /\ Raise("JSONDecodeError")
       \/ \* a JSON object: the loop walks its keys, and a str has no .get
          /\ "points" \in DOMAIN Entry
          /\ fields.json /\ fields.kind = "object" /\ DOMAIN fields.data # {}
          /\ calls' = Append(calls, get)
          /\ Raise("AttributeError")
       \/ /\ "points" \in DOMAIN Entry
          /\ fields.json
          /\ fields.kind = "array" \/ DOMAIN fields.data = {}
          /\ LET sp_field == IF fields.kind = "array"
                             THEN FirstStoryPointField(fields.data) ELSE None
             IN  calls' = IF sp_field = None
                          THEN Append(calls, get)
                          ELSE calls \o <<get, Call(uidx, "points", "PUT", "issue",
                                              [field |-> sp_field,
                                               value |-> Entry.points])>>
          /\ Goto("worklog")

\* worklog = entry.get("worklog"); if worklog: add_worklog(...)
add_worklog ==
    /\ upc = "worklog"
    /\ UNCHANGED <<cvars, aidx, ret>>
    /\ calls' =
         IF HasWorklog(Entry)
         THEN LET w == Entry.worklog
                  time_spent == IF "timeSpent" \in DOMAIN w THEN w.timeSpent ELSE ""
                  comment == IF "comment" \in DOMAIN w THEN w.comment ELSE ""
              IN  Append(calls, Call(uidx, "worklog", "POST", "worklog",
                                     WorklogPayload(time_spent, comment)))
         ELSE calls
    /\ Goto("cert")

\* if category and severity: attach_certificate(issue, category, severity)
attach_certificate ==
    /\ upc = "cert"
    /\ UNCHANGED <<cvars, aidx>>
    /\ \/ /\ ~HasCertificate(Entry)
          /\ UNCHANGED <<calls, ret>>
       \/ /\ HasCertificate(Entry)
          /\ LET possible_filenames ==
                     PossibleFilenames(Entry.category, Entry.severity)
                 found == { i \in DOMAIN possible_filenames :
                              Exists(CertPath(possible_filenames[i])) }
             IN  \/ /\ found = {}
                    /\ calls' = calls
                    /\ ret' = "False"
                 \/ /\ found # {}
                    /\ LET first == CHOOSE i \in found : \A j \in found : i <= j
                           path == CertPath(possible_filenames[first])
                       IN  \E code \in UploadCodes :
                             /\ calls' = Append(calls,
                                   Call(uidx, "cert", "POST", "attachments", path))
                             /\ ret' = UploadResult(code)
    /\ Goto("attach")

\* for rel_path in attachments: upload_file(issue, abs_path)
upload_file ==
    /\ upc = "attach"
    /\ aidx <= Len(GetAttachments(Entry))
    /\ UNCHANGED cvars
    /\ LET rel_path == GetAttachments(Entry)[aidx]
           abs_path == IF IsAbs(rel_path) THEN rel_path
                       ELSE Join(PROJECT_ROOT, rel_path)
       IN  \/ /\ ~Exists(abs_path)
              /\ calls' = calls
              /\ ret' = "False"
           \/ /\ Exists(abs_path)
              /\ \E code \in UploadCodes :
                   /\ calls' = Append(calls,
                         Call(uidx, "attach", "POST", "attachments", abs_path))
                   /\ ret' = UploadResult(code)
    /\ aidx' = aidx + 1
    /\ Goto("attach")

\* the for loop over items moves to the next entry, or process_rtm returns
next_entry ==
    /\ upc = "attach"
    /\ aidx > Len(GetAttachments(Entry))
    /\ uidx' = uidx + 1
    /\ aidx' = 1
    /\ upc' = IF uidx + 1 > Len(uitems) THEN "done" ELSE "status"
    /\ UNCHANGED <<cvars, uitems, calls, disk, transitions, myself, fields,
                   ret, raised>>

NextUpdate ==
    \/ update_status
    \/ add_comment
    \/ assign_to_me
    \/ add_labels
    \/ update_story_points
    \/ add_worklog
    \/ attach_certificate
    \/ upload_file
    \/ next_entry

(***************************************************************************)
(* Inputs of the batch update                                              *)
(***************************************************************************)
Done == <<"D","o","n","e">>
TransitionNames == { Done, Done \o <<"!">>, <<"D","O","N","E">>,
                     <<"T","o"," ","D","o">> }
\* Ids are text too: the code tests them for truth (if not transition_id).
TransitionIds == { <<"1","1">>, <<"2","1">> }
Transitions == [id : TransitionIds, name : TransitionNames]
StatusNames == { <<"d","o","n","e">>, Done, Done \o <<"!">>, <<"t","o"," ","d","o">> }

BoundedSeq(S, n) == UNION { [1..k -> S] : k \in 0..n }

\* What Jira answers when the caller is not authenticated or the issue is
\* unknown: a JSON object of messages.
ErrorObject == JsonObject([errorMessages |-> <<"error">>])

\* Bodies of GET .../transitions.
TransitionBodies ==
    { NotJson, ErrorObject }
        \cup { JsonObject([transitions |-> l]) :
                 l \in BoundedSeq(Transitions, MaxTransitions) }
FewTransitionBodies ==
    { NotJson, ErrorObject,
      JsonObject([transitions |->
          << [id |-> <<"1","1">>, name |-> Done \o <<"!">>],
             [id |-> <<"2","1">>, name |-> <<"D","O","N","E">>] >>]) }

\* Bodies of GET /myself.
MyselfBodies == { ErrorObject, JsonObject([accountId |-> "acct-1"]) }

StoryPointsName == <<"S","t","o","r","y"," ","P","o","i","n","t","s">>
SummaryName == <<"S","u","m","m","a","r","y">>
\* Bodies of GET /field.
FieldBodies ==
    { ErrorObject,
      JsonArray(<< [id |-> <<"summary">>, name |-> SummaryName], [id |-> <<"noname">>] >>),
      JsonArray(<< [id |-> <<"summary">>, name |-> SummaryName],
                   [id |-> <<"customfield_10016">>, name |-> StoryPointsName] >>) }

Maneuver == <<"M","a","n","e","u","v","e","r">>
LOW == <<"L","O","W">>
Low == <<"L","o","w">>
Categories == { Maneuver }
Severities == { LOW, Low }

RelLog == [dir |-> <<"logs">>, name |-> <<"t",".","c","s","v">>]
AbsLog == [dir |-> <<"/", "tmp">>, name |-> <<"r",".","l","o","g">>]
AttachmentLists == BoundedSeq({RelLog, AbsLog}, MaxAttachments)

Worklogs == { [timeSpent |-> "1h30m"], [timeSpent |-> "1h30m", comment |-> "note"] }

FullUpdateEntry(w, a) ==
    [issue |-> CPG \o <<"-","1","0","1">>, status |-> <<"d","o","n","e">>,
     comment |-> "RTM-1 created (auto-generated).", labels |-> <<"cert">>,
     points |-> 0, worklog |-> w, category |-> Maneuver, severity |-> LOW,
     attachments |-> a]

UpdateFields == {"issue", "status", "comment", "labels", "points", "worklog",
                 "category", "severity", "attachments"}

\* Update entries: the full one, the bare one, what the creation scripts
\* derive, one with a worklog only, and one whose certificate lacks severity.
UpdateFieldSets ==
    { UpdateFields,
      {"issue"},
      {"issue", "status", "comment", "labels", "points"},
      {"issue", "worklog"},
      UpdateFields \ {"severity", "attachments"} }

UpdateEntries ==
    { Restrict(FullUpdateEntry(w, a), F) :
        w \in Worklogs, a \in AttachmentLists \ {<<>>}, F \in UpdateFieldSets }

\* Certificate files that may lie in CERT_DIR.
CertFiles ==
    { CertPath(c \o sep \o v \o Pdf) : c \in {Maneuver}, v \in {LOW, Low},
                                       sep \in {<<"_">>, <<"-">>} }
        \cup { CertPath(Lower(Maneuver) \o sep \o Lower(LOW) \o Pdf) :
                 sep \in {<<"_">>, <<"-">>} }
        \cup { CertPath(Upper(Maneuver) \o <<"_">> \o LOW \o Pdf) }

FewDisks ==
    { {},
      { CertPath(Lower(Maneuver) \o <<"-">> \o Lower(LOW) \o Pdf),
        Join(PROJECT_ROOT, RelLog) },
      { CertPath(Upper(Maneuver) \o <<"_">> \o LOW \o Pdf), AbsLog } }

InitIdleCreate ==
    /\ script = "create_jira" /\ pc = "idle" /\ default_project = None
    /\ items = <<>> /\ idx = 1 /\ update_entries = <<>> /\ requests = <<>>
    /\ stdout = <<>> /\ written = <<>>

\* process_rtm on a whole --rtm file.  Every entry carries "issue" (the data
\* model requires it); the bodies the server returns and the local disk stay
\* the same throughout one run.
InitUpdate ==
    /\ InitIdleCreate
    /\ uitems \in BoundedSeq(UpdateEntries, MaxUpdates)
    /\ uidx = 1 /\ aidx = 1
    /\ upc = IF uitems = <<>> THEN "done" ELSE "status"
    /\ calls = <<>> /\ ret = "None" /\ raised = "None"
    /\ disk \in FewDisks
    /\ transitions \in FewTransitionBodies
    /\ myself \in MyselfBodies
    /\ fields \in FieldBodies

SpecUpdate == InitUpdate /\ [][NextUpdate]_vars

\* update_status on one entry, for every transition list up to MaxTransitions
InitStatus ==
    /\ InitIdleCreate
    /\ \E s \in StatusNames :
         uitems \in { << [issue |-> CPG \o <<"-","1","0","1">>, status |-> s] >>,
                      << [issue |-> CPG \o <<"-","1","0","1">>] >> }
    /\ uidx = 1 /\ aidx = 1 /\ upc = "status"
    /\ calls = <<>> /\ ret = "None" /\ raised = "None"
    /\ disk = {}
    /\ transitions \in TransitionBodies
    /\ myself = ErrorObject
    /\ fields = ErrorObject

SpecStatus == InitStatus /\ [][update_status]_vars

\* attach_certificate on one entry, for every set of certificate files
InitCert ==
    /\ InitIdleCreate
    /\ \E c \in Categories, v \in Severities :
         uitems \in { << [issue |-> CPG \o <<"-","1","0","1">>,
                          category |-> c, severity |-> v] >>,
                      << [issue |-> CPG \o <<"-","1","0","1">>, category |-> c] >> }
    /\ uidx = 1 /\ aidx = 1 /\ upc = "cert"
    /\ calls = <<>> /\ ret = "None" /\ raised = "None"
    /\ disk \in SUBSET CertFiles
    /\ transitions = ErrorObject
    /\ myself = ErrorObject
    /\ fields = ErrorObject

SpecCert == InitCert /\ [][attach_certificate]_vars

(***************************************************************************)
(* Properties of the creation drivers                                      *)
(***************************************************************************)
Is201(r) == r.status_code = 201
Created == SelectSeq(requests, Is201)
RequestsFor(i) == { k \in DOMAIN requests : requests[k].entry = i }
LinesFor(i, tag) == { k \in DOMAIN stdout : stdout[k].entry = i /\ stdout[k].tag = tag }
Handled(i) == i < idx

\* C1: the derived update list holds exactly one entry per create request that
\* was answered 201 with a key, carrying that key in `issue`, in input order;
\* skipped and failed entries leave no entry; the file written is that list.
C1_DerivedListIsCreatedKeys ==
    /\ Len(update_entries) = Len(Created)
    /\ \A j \in DOMAIN update_entries : update_entries[j].issue = Created[j].key
    /\ \A j, k \in DOMAIN Created : j < k => Created[j].entry < Created[k].entry
    /\ \A i \in DOMAIN items : Cardinality(RequestsFor(i)) <= 1
    /\ \A j \in DOMAIN update_entries : update_entries[j].issue # None
    /\ pc = "done" => written = <<update_entries>>

C1_Witness ==
    /\ pc = "done"
    /\ Len(items) = 2
    /\ \E k \in DOMAIN requests : requests[k].status_code = 400
    /\ \E k \in DOMAIN requests : requests[k].status_code = 201
    /\ Len(update_entries) = 1

\* C2: an entry lacking rtm, epic, summary or description gets no create
\* request and a [SKIP] line, the entries after it are still handled, and an
\* entry lacking only labels is never skipped for it: its request carries [].
C2_MissingFieldSkipsOnlyThatEntry ==
    /\ \A i \in DOMAIN items :
         (Handled(i) /\ ~(RequiredFields \subseteq DOMAIN items[i])) =>
            /\ RequestsFor(i) = {}
            /\ LinesFor(i, "SKIP") # {}
    /\ Len(update_entries) <= Len(requests)
    /\ \A i \in DOMAIN items :
         (Handled(i) /\ RequiredFields \subseteq DOMAIN items[i]) =>
            /\ LinesFor(i, "SKIP") = {}
            /\ RequestsFor(i) = {} => LinesFor(i, "ERROR_GUARD") # {}
            /\ "labels" \notin DOMAIN items[i] =>
                 \A k \in RequestsFor(i) : requests[k].labels = <<>>
    /\ pc = "done" => \A i \in DOMAIN items : Handled(i)

C2_Witness ==
    /\ pc = "done"
    /\ Len(items) = 2
    /\ ~(RequiredFields \subseteq DOMAIN items[1])
    /\ DOMAIN items[2] = RequiredFields
    /\ RequestsFor(1) = {}
    /\ \E k \in RequestsFor(2) : requests[k].labels = <<>>
    /\ Len(update_entries) = 1

\* C4 as stated: every create request carries the epic key's prefix before the
\* first "-" as its project key, and with an explicit target project every
\* entry whose epic prefix differs from the target is skipped with an error.
C4_Original ==
    /\ \A k \in DOMAIN requests :
         requests[k].project = SplitFirst(requests[k].parent)
    /\ default_project # None =>
         \A i \in DOMAIN items :
            (/\ Handled(i)
             /\ RequiredFields \subseteq DOMAIN items[i]
             /\ SplitFirst(items[i].epic) # default_project) =>
                /\ RequestsFor(i) = {}
                /\ LinesFor(i, "ERROR_GUARD") # {}

\* C4 amended: in create_jira_prompt_project.py every create request carries a
\* project key p with the epic key starting with p + "-"; with no target p is
\* the prefix before the first "-"; with a target p is the target and every
\* entry whose epic key does not start with target + "-" is skipped with an
\* error.  In create_jira.py the project key is always "CPG".
C4_ProjectKeyGuard ==
    /\ script = "create_jira" =>
         \A k \in DOMAIN requests : requests[k].project = CPG
    /\ script = "create_jira_prompt_project" =>
         /\ \A k \in DOMAIN requests :
              /\ StartsWith(requests[k].parent, requests[k].project \o <<"-">>)
              /\ default_project = None =>
                   requests[k].project = SplitFirst(requests[k].parent)
              /\ default_project # None =>
                   requests[k].project = default_project
         /\ \A i \in DOMAIN items :
              (/\ Handled(i)
               /\ RequiredFields \subseteq DOMAIN items[i]
               /\ ~StartsWith(items[i].epic,
                     (IF default_project # None THEN default_project
                      ELSE SplitFirst(items[i].epic)) \o <<"-">>)) =>
                  /\ RequestsFor(i) = {}
                  /\ LinesFor(i, "ERROR_GUARD") # {}

C4_Witness ==
    /\ pc = "done"
    /\ script = "create_jira_prompt_project"
    /\ default_project = ENG
    /\ Len(items) = 2
    /\ LinesFor(1, "ERROR_GUARD") # {}
    /\ \E k \in RequestsFor(2) : requests[k].project = ENG

\* C9: at most one create request per entry, a non-201 answer is followed by
\* the next entry (the loop can always take its next step), and once the loop
\* is over the derived list is written to the update file exactly once, also
\* when it is empty.
C9_NoRetryAndOneWrite ==
    /\ \A i \in DOMAIN items : Cardinality(RequestsFor(i)) <= 1
    /\ \A j, k \in DOMAIN requests : j < k => requests[j].entry < requests[k].entry
    /\ \A k \in DOMAIN requests : requests[k].entry < idx
    /\ pc \in {"prompt", "loop", "aborted"} => written = <<>>
    /\ pc = "loop" => ENABLED (\/ skip_missing_field \/ skip_cross_project
                               \/ create_entry \/ write_update_file)
    /\ pc = "done" =>
         /\ Len(written) = 1
         /\ written[1] = update_entries
         /\ idx = Len(items) + 1
         /\ \A i \in DOMAIN items : \E k \in DOMAIN stdout : stdout[k].entry = i

C9_Witness ==
    /\ pc = "done"
    /\ Len(requests) = 2
    /\ \A k \in DOMAIN requests : requests[k].status_code # 201
    /\ written = << <<>> >>

\* C10: every derived update entry has status "To Do", points 0 and the labels
\* of the creation entry it came from, [] when that entry had none.
C10_DerivedEntryFields ==
    /\ Len(update_entries) = Len(Created)
    /\ \A j \in DOMAIN update_entries :
         /\ update_entries[j].status = "To Do"
         /\ update_entries[j].points = 0
         /\ LET src == items[Created[j].entry] IN
            update_entries[j].labels =
               (IF "labels" \in DOMAIN src THEN src.labels ELSE <<>>)

C10_Witness ==
    /\ pc = "done"
    /\ Len(update_entries) = 2
    /\ update_entries[1].labels = <<>>
    /\ update_entries[2].labels = <<"cert">>
    /\ "labels" \notin DOMAIN items[1]

(***************************************************************************)
(* Properties of the batch update                                          *)
(***************************************************************************)
CallsOf(e, step) ==
    { k \in DOMAIN calls : calls[k].entry = e /\ calls[k].step = step }
\* process_rtm is through with entry e: it moved past it, or it died in it.
Left(e) == e < uidx \/ (e = uidx /\ upc = "crashed")
Min(S) == CHOOSE i \in S : \A j \in S : i <= j
StepOrder == <<"status", "comment", "assign", "labels", "points", "worklog",
               "cert", "attach">>
Rank(step) == CHOOSE r \in DOMAIN StepOrder : StepOrder[r] = step

\* C3 as stated: a failing step (bad status, unusable body, resolution miss,
\* missing file) never lets an exception out of process_rtm, and process_rtm
\* ends only after the last entry.
C3_Original ==
    /\ raised = "None"
    /\ upc # "crashed"
    /\ upc = "done" => uidx = Len(uitems) + 1

\* C5 as stated: calls come in the order status, comment, assignee, labels,
\* story points, work log, certificate, attachments, entry after entry, and
\* every entry process_rtm is through with has had its assignee request.
C5_Original ==
    /\ \A j, k \in DOMAIN calls :
         j < k =>
            \/ calls[j].entry < calls[k].entry
            \/ /\ calls[j].entry = calls[k].entry
               /\ Rank(calls[j].step) <= Rank(calls[k].step)
    /\ \A e \in DOMAIN uitems :
         Left(e) => \E k \in CallsOf(e, "assign") : calls[k].method = "PUT"

\* C8 as stated: every entry with a worklog object that process_rtm is through
\* with has exactly one work-log request, carrying its timeSpent and a comment
\* document iff the worklog has a comment; an entry without one has none.
C8_Original ==
    \A e \in DOMAIN uitems :
       Left(e) =>
          IF "worklog" \in DOMAIN uitems[e]
          THEN /\ Cardinality(CallsOf(e, "worklog")) = 1
               /\ \A k \in CallsOf(e, "worklog") :
                    /\ calls[k].payload.timeSpent = uitems[e].worklog.timeSpent
                    /\ "comment" \in DOMAIN calls[k].payload
                         <=> "comment" \in DOMAIN uitems[e].worklog
          ELSE CallsOf(e, "worklog") = {}

\* C6: attach_certificate uploads the first of the six candidate names, taken
\* in the documented order, that exists in CERT_DIR, and nothing else even if
\* that upload fails; with no candidate on disk it uploads nothing, returns
\* False and raises nothing.
C6_FirstExistingCandidateOnly ==
    (upc = "attach" /\ HasCertificate(uitems[1])) =>
       LET cat == uitems[1].category
           sev == uitems[1].severity
           cand == << cat \o <<"_">> \o sev \o Pdf,
                      Lower(cat \o <<"_">> \o sev) \o Pdf,
                      Lower(cat) \o <<"_">> \o Lower(sev) \o Pdf,
                      Upper(cat) \o <<"_">> \o Upper(sev) \o Pdf,
                      cat \o <<"-">> \o sev \o Pdf,
                      Lower(cat) \o <<"-">> \o Lower(sev) \o Pdf >>
           there == { i \in 1..6 : [dir |-> CERT_DIR, name |-> cand[i]] \in disk }
       IN  /\ raised = "None"
           /\ IF there = {}
              THEN calls = <<>> /\ ret = "False"
              ELSE /\ Len(calls) = 1
                   /\ calls[1].method = "POST"
                   /\ calls[1].target = "attachments"
                   /\ calls[1].payload =
                         [dir |-> CERT_DIR, name |-> cand[Min(there)]]
                   /\ ret \in {"True", "False"}

C6_Witness ==
    /\ upc = "attach"
    /\ HasCertificate(uitems[1])
    /\ uitems[1].severity = LOW
    /\ CertPath(Maneuver \o <<"_">> \o LOW \o Pdf) \notin disk
    /\ CertPath(Upper(Maneuver) \o <<"_">> \o LOW \o Pdf) \in disk
    /\ CertPath(Maneuver \o <<"-">> \o LOW \o Pdf) \in disk
    /\ CertPath(Lower(Maneuver) \o <<"_">> \o Lower(LOW) \o Pdf) \notin disk
    /\ Len(calls) = 1
    /\ calls[1].payload = CertPath(Upper(Maneuver) \o <<"_">> \o LOW \o Pdf)
    /\ ret = "False"

\* C7: update_status posts a transition iff the fetched list holds one whose
\* name equals the desired status ignoring case (whole name, not a part of
\* it), the id posted is that of the first such transition, and with no match
\* nothing is posted and process_rtm goes on to the comment step.
C7_PostIffExactMatchIgnoringCase ==
    (upc # "status" /\ "status" \in DOMAIN uitems[1]) =>
       LET list == IF /\ transitions.json
                      /\ "transitions" \in DOMAIN transitions.data
                   THEN transitions.data.transitions ELSE <<>>
           hits == { i \in DOMAIN list :
                       Lower(list[i].name) = Lower(uitems[1].status) }
           posts == { k \in DOMAIN calls :
                        calls[k].step = "status" /\ calls[k].method = "POST" }
       IN  /\ posts # {} <=> hits # {}
           /\ Cardinality(posts) <= 1
           /\ \A k \in posts : calls[k].payload = list[Min(hits)].id
           /\ (transitions.json /\ hits = {}) =>
                 upc = "comment" /\ raised = "None"

C7_Witness ==
    /\ upc = "comment"
    /\ "status" \in DOMAIN uitems[1]
    /\ uitems[1].status = <<"d","o","n","e">>
    /\ transitions.json
    /\ "transitions" \in DOMAIN transitions.data
    /\ transitions.data.transitions =
          << [id |-> <<"1","1">>, name |-> Done \o <<"!">>],
             [id |-> <<"2","1">>, name |-> Done] >>
    /\ Len(calls) = 2
    /\ calls[2].method = "POST"
    /\ calls[2].payload = <<"2","1">>

====
